---- MODULE Spec2Model ----
(***************************************************************************)
(* Itinerary composition engine (src/itinerary/service.py) over the        *)
(* relational store declared in src/models.py.                             *)
(*                                                                         *)
(* The store is the record `db` of committed tables.  A handler runs in    *)
(* one session (database.py: autocommit=False, autoflush=False): its       *)
(* writes reach `db` only at db.commit(); an exception raised before the   *)
(* commit rolls every write of the call back.                              *)
(***************************************************************************)
EXTENDS Integers, Sequences, FiniteSets, TLC

VARIABLES db, catalog, last, call

vars == <<db, catalog, last, call>>

----------------------------------------------------------------------------
(* Bounds of the model *)

MaxItineraries == 2
MaxDayRows == 3
MaxNights == 1
MaxDayNumber == 4
MaxEdits == 2

----------------------------------------------------------------------------
(* Values *)

NULL == "NULL"

Procs == {"p1", "p2"}

(* Rows of the catalog tables that exist / ids a request may carry. *)
DestinationRows == {1, 2}
AccommodationRows == {1, 2}
ActivityRows == {1, 2}
TransferRows == {1}

----------------------------------------------------------------------------
(* Errors: src/itinerary/exceptions.py and the exceptions that escape the  *)
(* handlers unhandled (answered by the framework with status 500).         *)

NoError == [status_code |-> 0, detail |-> "", raised |-> ""]

ITINERARY_NOT_FOUND ==
    [status_code |-> 404, detail |-> "Itinerary not found", raised |-> "HTTPException"]

INVALID_DAY_NUMBER ==
    [status_code |-> 400, detail |-> "Invalid day number for this itinerary", raised |-> "HTTPException"]

DESTINATION_NOT_FOUND ==
    [status_code |-> 404, detail |-> "Destination not found", raised |-> "HTTPException"]

ACCOMMODATION_NOT_FOUND ==
    [status_code |-> 404, detail |-> "Accommodation not found", raised |-> "HTTPException"]

ACTIVITY_NOT_FOUND ==
    [status_code |-> 404, detail |-> "Activity not found", raised |-> "HTTPException"]

TRANSFER_NOT_FOUND ==
    [status_code |-> 404, detail |-> "Transfer not found", raised |-> "HTTPException"]

DAYS_MISMATCH ==
    [status_code |-> 400, detail |-> "Number of days does not match the duration nights", raised |-> "HTTPException"]

DAY_ALREADY_EXISTS ==
    [status_code |-> 400, detail |-> "Day already exists for this itinerary", raised |-> "HTTPException"]

(* add_itinerary_day builds its own 400 with the day number formatted into *)
(* the detail; the number itself is last.day_number.                       *)
DayExistsInline ==
    [status_code |-> 400, detail |-> "Day {day_number} already exists for this itinerary", raised |-> "HTTPException"]

(* ItineraryException has no attribute INVALID_DAYS_COUNT. *)
AttributeError ==
    [status_code |-> 500, detail |-> "Internal Server Error", raised |-> "AttributeError"]

(* Session.execute() given a plain string where the installed SQLAlchemy   *)
(* accepts only text(). *)
ArgumentError ==
    [status_code |-> 500, detail |-> "Internal Server Error", raised |-> "ArgumentError"]

(* A constraint of src/models.py rejected a statement. *)
IntegrityError ==
    [status_code |-> 500, detail |-> "Internal Server Error", raised |-> "IntegrityError"]

Created == [status_code |-> 201, detail |-> "", raised |-> ""]
NoContent == [status_code |-> 204, detail |-> "", raised |-> ""]
Ok == [status_code |-> 200, detail |-> "", raised |-> ""]

----------------------------------------------------------------------------
(* The store *)

EmptyDB ==
    [itineraries |-> {},
     itinerary_days |-> {},
     itinerary_accommodation |-> {},
     itinerary_activity |-> {},
     itinerary_transfer |-> {},
     itinerary_id_seq |-> 0,
     itinerary_day_id_seq |-> 0]

Catalog ==
    [destinations |-> DestinationRows,
     accommodations |-> AccommodationRows,
     activities |-> ActivityRows,
     transfers |-> TransferRows]

ItineraryRow(d, itinerary_id) ==
    CHOOSE i \in d.itineraries : i.id = itinerary_id

DaysOf(d, itinerary_id) ==
    {r \in d.itinerary_days : r.itinerary_id = itinerary_id}

DayNumbersOf(d, itinerary_id) ==
    {r.day_number : r \in DaysOf(d, itinerary_id)}

----------------------------------------------------------------------------
(* Request payloads (src/itinerary/schemas.py) *)

ActivityEntry(id, start_time, end_time, order) ==
    [id |-> id, start_time |-> start_time, end_time |-> end_time, order |-> order]

TransferEntry(id, order) == [id |-> id, order |-> order]

(* The shapes of a day a request may carry, without its day_number: the    *)
(* last four name a catalog row that does not exist, at a position after   *)
(* at least one entry that does.                                           *)
DayShapes ==
    { [main_destination_id |-> 1, description |-> NULL,
       accommodations |-> <<>>, activities |-> <<>>, transfers |-> <<>>],
      [main_destination_id |-> 2, description |-> "beach",
       accommodations |-> <<1>>,
       activities |-> <<ActivityEntry(1, "09:00", "08:00", 1), ActivityEntry(2, NULL, "", 1)>>,
       transfers |-> <<TransferEntry(1, 1)>>],
      [main_destination_id |-> 3, description |-> NULL,
       accommodations |-> <<1>>, activities |-> <<>>, transfers |-> <<>>],
      [main_destination_id |-> 1, description |-> NULL,
       accommodations |-> <<1, 3>>, activities |-> <<>>, transfers |-> <<>>],
      [main_destination_id |-> 1, description |-> NULL,
       accommodations |-> <<2>>,
       activities |-> <<ActivityEntry(1, NULL, NULL, 2), ActivityEntry(3, NULL, NULL, 1)>>,
       transfers |-> <<>>],
      [main_destination_id |-> 1, description |-> NULL,
       accommodations |-> <<1>>,
       activities |-> <<ActivityEntry(2, "09:00", NULL, 1)>>,
       transfers |-> <<TransferEntry(1, 2), TransferEntry(2, 1)>>] }

(* An Optional[...] field of a payload: None when omitted. *)
None == <<>>
Some(v) == <<v>>
ValueOf(o) == o[1]

(* ItineraryDayUpdate payloads. *)
ItineraryDayUpdate ==
    { [main_destination_id |-> None, description |-> Some("beach"),
       accommodations |-> None, activities |-> None, transfers |-> None],
      [main_destination_id |-> None, description |-> None,
       accommodations |-> None, activities |-> Some(<<>>), transfers |-> None],
      [main_destination_id |-> Some(3), description |-> Some("beach"),
       accommodations |-> None, activities |-> None, transfers |-> None],
      [main_destination_id |-> None, description |-> None,
       accommodations |-> Some(<<1, 3>>), activities |-> None, transfers |-> None],
      [main_destination_id |-> None, description |-> None,
       accommodations |-> None,
       activities |-> Some(<<ActivityEntry(3, NULL, NULL, 1)>>), transfers |-> None],
      [main_destination_id |-> None, description |-> None,
       accommodations |-> Some(<<>>), activities |-> None,
       transfers |-> Some(<<TransferEntry(1, 2), TransferEntry(2, 1)>>)] }

(* An ItineraryDayUpdate that supplies only a description. *)
DescriptionOnly ==
    [main_destination_id |-> None, description |-> Some("hike"),
     accommodations |-> None, activities |-> None, transfers |-> None]

(* ItineraryDayUpdate payloads that supply one list of existing catalog    *)
(* rows, or an empty one.                                                  *)
ListUpdates ==
    { [main_destination_id |-> None, description |-> None,
       accommodations |-> Some(<<2>>), activities |-> None, transfers |-> None],
      [main_destination_id |-> None, description |-> None,
       accommodations |-> Some(<<>>), activities |-> None, transfers |-> None],
      [main_destination_id |-> None, description |-> None,
       accommodations |-> None,
       activities |-> Some(<<ActivityEntry(2, "10:00", NULL, 1)>>), transfers |-> None],
      [main_destination_id |-> None, description |-> None,
       accommodations |-> None, activities |-> Some(<<>>), transfers |-> None],
      [main_destination_id |-> None, description |-> None,
       accommodations |-> None, activities |-> None,
       transfers |-> Some(<<TransferEntry(1, 2)>>)],
      [main_destination_id |-> None, description |-> None,
       accommodations |-> None, activities |-> None, transfers |-> Some(<<>>)] }

DayCreate(day_number, shape) ==
    [day_number |-> day_number,
     main_destination_id |-> shape.main_destination_id,
     description |-> shape.description,
     accommodations |-> shape.accommodations,
     activities |-> shape.activities,
     transfers |-> shape.transfers]

ItineraryDayCreate ==
    {DayCreate(n, s) : n \in 1..MaxDayNumber, s \in DayShapes}

(* The payloads without accommodations or with two activities: a plain    *)
(* day, a day with every kind of association, a day whose second activity  *)
(* does not exist.                                                         *)
ConcDayCreate ==
    {p \in ItineraryDayCreate : p.accommodations = <<>> \/ Len(p.activities) = 2}


PlainDay(n) ==
    DayCreate(n, [main_destination_id |-> 1, description |-> NULL,
                  accommodations |-> <<>>, activities |-> <<>>, transfers |-> <<>>])

(* An ItineraryCreate payload; the fields besides duration_nights and days *)
(* are the same in every request.                                          *)
ItineraryCreate(duration_nights, days) ==
    [title |-> "Trip",
     duration_nights |-> duration_nights,
     description |-> "A trip",
     preferences |-> NULL,
     total_estimated_cost |-> NULL,
     days |-> days]

(* ItineraryUpdate payloads: a title with a duration_nights no itinerary   *)
(* has, the other scalar fields, and nothing.                              *)
ItineraryUpdate ==
    { [title |-> Some("Tour"), duration_nights |-> Some(MaxDayNumber + 1),
       description |-> None, is_recommended |-> None,
       preferences |-> None, total_estimated_cost |-> None],
      [title |-> None, duration_nights |-> None,
       description |-> Some("Updated"), is_recommended |-> Some(TRUE),
       preferences |-> Some("{}"), total_estimated_cost |-> Some(100)],
      [title |-> None, duration_nights |-> None,
       description |-> None, is_recommended |-> None,
       preferences |-> None, total_estimated_cost |-> None] }

(* The days of an ItineraryCreate payload of the given length: any days   *)
(* when the length is duration_nights + 1, plain days numbered 1.. when   *)
(* it is not (days defaults to the empty list).                            *)
CreateDaysOfLen(len, duration_nights) ==
    IF len = duration_nights + 1
    THEN [1..len -> ItineraryDayCreate]
    ELSE {[k \in 1..len |-> PlainDay(k)]}

----------------------------------------------------------------------------
(* One open transaction: the tables as the session sees them, the          *)
(* day-accommodation links appended to a relationship and not yet flushed, *)
(* and the exception raised, if any.                                       *)

Begin(d) == [db |-> d, pending |-> <<>>, error |-> NoError]

Raise(t, e) == [t EXCEPT !.error = e]

(* f"'{v}'" if v else 'NULL' *)
SqlTime(v) == IF v \in {NULL, ""} THEN NULL ELSE v

(* Flush of the appended accommodation links: one INSERT per appended      *)
(* element; the primary key (itinerary_day_id, accommodation_id) rejects a *)
(* second row for the same pair.                                           *)
RECURSIVE Flush(_)
Flush(t) ==
    IF t.error # NoError \/ t.pending = <<>> THEN t
    ELSE LET row == Head(t.pending) IN
         IF row \in t.db.itinerary_accommodation
         THEN Raise(t, IntegrityError)
         ELSE Flush([t EXCEPT !.db.itinerary_accommodation = @ \cup {row},
                              !.pending = Tail(t.pending)])

(* The table without uq_itinerary_day_number. *)
UniqueDayNumberAbsent(d, itinerary_id, day_number) == TRUE

(* uq_itinerary_day_number: no row of the table has this pair. *)
UniqueDayNumberHolds(d, itinerary_id, day_number) ==
    \A r \in d.itinerary_days :
        ~(r.itinerary_id = itinerary_id /\ r.day_number = day_number)

(* db.add(day); db.flush(): what was pending is written, then the day row  *)
(* under its foreign key to itineraries and uq_itinerary_day_number.       *)
InsertDay(t, itinerary_id, day_data) ==
    LET f == Flush(t)
        id == f.db.itinerary_day_id_seq + 1
        row == [id |-> id,
                itinerary_id |-> itinerary_id,
                day_number |-> day_data.day_number,
                main_destination_id |-> day_data.main_destination_id,
                description |-> day_data.description]
    IN  IF f.error # NoError THEN f
        ELSE IF \A i \in f.db.itineraries : i.id # itinerary_id
        THEN Raise(f, IntegrityError)
        ELSE IF ~UniqueDayNumberHolds(f.db, itinerary_id, day_data.day_number)
        THEN Raise(f, IntegrityError)
        ELSE [f EXCEPT !.db.itinerary_days = @ \cup {row},
                       !.db.itinerary_day_id_seq = id]

RECURSIVE AttachAccommodations(_, _, _, _)
AttachAccommodations(t, cat, day_id, ids) ==
    IF t.error # NoError \/ ids = <<>> THEN t
    ELSE IF Head(ids) \notin cat.accommodations
    THEN Raise(t, ACCOMMODATION_NOT_FOUND)
    ELSE AttachAccommodations(
            [t EXCEPT !.pending = Append(@, [itinerary_day_id |-> day_id,
                                             accommodation_id |-> Head(ids)])],
            cat, day_id, Tail(ids))

(* The table without its primary key. *)
ActivityKeyAbsent(d, day_id, activity_id) == TRUE

(* PRIMARY KEY (itinerary_day_id, activity_id) of itinerary_activity: no   *)
(* row of the table has this pair.                                         *)
ActivityKeyHolds(d, day_id, activity_id) ==
    \A r \in d.itinerary_activity :
        ~(r.itinerary_day_id = day_id /\ r.activity_id = activity_id)

RECURSIVE InsertActivities(_, _, _, _)
InsertActivities(t, cat, day_id, entries) ==
    IF t.error # NoError \/ entries = <<>> THEN t
    ELSE LET e == Head(entries) IN
         IF e.id \notin cat.activities
         THEN Raise(t, ACTIVITY_NOT_FOUND)
         ELSE IF ~ActivityKeyHolds(t.db, day_id, e.id)
         THEN Raise(t, IntegrityError)
         ELSE InsertActivities(
                [t EXCEPT !.db.itinerary_activity = @ \cup
                    {[itinerary_day_id |-> day_id,
                      activity_id |-> e.id,
                      start_time |-> SqlTime(e.start_time),
                      end_time |-> SqlTime(e.end_time),
                      order |-> e.order]}],
                cat, day_id, Tail(entries))

RECURSIVE InsertTransfers(_, _, _, _)
InsertTransfers(t, cat, day_id, entries) ==
    IF t.error # NoError \/ entries = <<>> THEN t
    ELSE LET e == Head(entries) IN
         IF e.id \notin cat.transfers
         THEN Raise(t, TRANSFER_NOT_FOUND)
         ELSE IF \E r \in t.db.itinerary_transfer :
                    r.itinerary_day_id = day_id /\ r.transfer_id = e.id
         THEN Raise(t, IntegrityError)
         ELSE InsertTransfers(
                [t EXCEPT !.db.itinerary_transfer = @ \cup
                    {[itinerary_day_id |-> day_id,
                      transfer_id |-> e.id,
                      order |-> e.order]}],
                cat, day_id, Tail(entries))

(* The day row and its three association loops, as create_itinerary and    *)
(* add_itinerary_day both write them.                                      *)
ComposeDay(t, cat, itinerary_id, day_data) ==
    LET t1 == InsertDay(t, itinerary_id, day_data)
        day_id == t1.db.itinerary_day_id_seq
        t2 == AttachAccommodations(t1, cat, day_id, day_data.accommodations)
        t3 == InsertActivities(t2, cat, day_id, day_data.activities)
    IN  InsertTransfers(t3, cat, day_id, day_data.transfers)

(* The writes flushed before the exception stay. *)
RollbackKeepsWrites(d, t) == t.db

(* get_db: an exception leaves the store as it was before the call. *)
Rollback(d, t) == d

(* db.commit(): flush what is pending, then make the writes durable. The  *)
(* handler's outcome is the store after the call and its response.        *)
Outcome(d, t, success) ==
    LET f == Flush(t) IN
    IF f.error # NoError
    THEN [db |-> Rollback(d, f), response |-> f.error]
    ELSE [db |-> f.db, response |-> success]

----------------------------------------------------------------------------
(* create_itinerary *)

RECURSIVE CreateDays(_, _, _, _)
CreateDays(t, cat, itinerary_id, days) ==
    IF t.error # NoError \/ days = <<>> THEN t
    ELSE LET day_data == Head(days) IN
         IF day_data.main_destination_id \notin cat.destinations
         THEN Raise(t, DESTINATION_NOT_FOUND)
         ELSE CreateDays(ComposeDay(t, cat, itinerary_id, day_data),
                         cat, itinerary_id, Tail(days))

create_itinerary(d, cat, itinerary_data) ==
    IF Len(itinerary_data.days) # itinerary_data.duration_nights + 1
    THEN [db |-> d, response |-> AttributeError]
    ELSE LET id == d.itinerary_id_seq + 1
             t0 == [Begin(d) EXCEPT
                      !.db.itineraries = @ \cup
                          {[id |-> id,
                            uuid |-> <<"uuid4", id>>,
                            title |-> itinerary_data.title,
                            duration_nights |-> itinerary_data.duration_nights,
                            is_recommended |-> FALSE,
                            description |-> itinerary_data.description,
                            preferences |-> itinerary_data.preferences,
                            total_estimated_cost |-> itinerary_data.total_estimated_cost]},
                      !.db.itinerary_id_seq = id]
         IN  Outcome(d, CreateDays(t0, cat, id, itinerary_data.days), Created)

----------------------------------------------------------------------------
(* The serializers and the projection of a day *)

(* model_validate(acc).model_dump() of an Accommodation row; name and type *)
(* are the catalog row's own and the same in every projection.             *)
AccommodationSerializer(acc) == [id |-> acc]

(* model_validate(act).model_dump() of an Activity row: start_time,        *)
(* end_time and order are read from the Activity object, which has no such *)
(* attributes, so each takes its default None.                             *)
ActivitySerializer(act) ==
    [id |-> act, start_time |-> None, end_time |-> None, order |-> None]

(* model_validate(tr).model_dump() of a Transfer row: no `order` attribute. *)
TransferSerializer(tr) == [id |-> tr, order |-> None]

(* ItineraryDay.accommodations: the Accommodation rows linked to the day,  *)
(* in the order the database returns them (the relationship has no         *)
(* order_by; the same rows come in the same order).                        *)
RECURSIVE AccommodationsOf(_, _)
AccommodationsOf(d, day_id) ==
    LET rows == {r \in d.itinerary_accommodation : r.itinerary_day_id = day_id} IN
    IF rows = {} THEN <<>>
    ELSE LET first == CHOOSE r \in rows :
                        \A o \in rows : r.accommodation_id <= o.accommodation_id
         IN  <<first.accommodation_id>>
             \o AccommodationsOf(
                    [d EXCEPT !.itinerary_accommodation = @ \ {first}], day_id)

(* The relationship loaded without its join condition on the day. *)
RECURSIVE ActivitiesOfAnyDay(_, _)
ActivitiesOfAnyDay(d, day_id) ==
    LET rows == d.itinerary_activity IN
    IF rows = {} THEN <<>>
    ELSE LET first == CHOOSE r \in rows :
                        \A o \in rows :
                            \/ r.order < o.order
                            \/ r.order = o.order /\ r.activity_id <= o.activity_id
         IN  <<first.activity_id>>
             \o ActivitiesOfAnyDay([d EXCEPT !.itinerary_activity = @ \ {first}], day_id)

(* ItineraryDay.activities: the Activity rows linked to the day,           *)
(* order_by itinerary_activity.order.                                      *)
RECURSIVE ActivitiesOf(_, _)
ActivitiesOf(d, day_id) ==
    LET rows == {r \in d.itinerary_activity : r.itinerary_day_id = day_id} IN
    IF rows = {} THEN <<>>
    ELSE LET first == CHOOSE r \in rows :
                        \A o \in rows :
                            \/ r.order < o.order
                            \/ r.order = o.order /\ r.activity_id <= o.activity_id
         IN  <<first.activity_id>>
             \o ActivitiesOf([d EXCEPT !.itinerary_activity = @ \ {first}], day_id)

(* ItineraryDay.transfers: the Transfer rows linked to the day, order_by   *)
(* itinerary_transfer.order.                                               *)
RECURSIVE TransfersOf(_, _)
TransfersOf(d, day_id) ==
    LET rows == {r \in d.itinerary_transfer : r.itinerary_day_id = day_id} IN
    IF rows = {} THEN <<>>
    ELSE LET first == CHOOSE r \in rows :
                        \A o \in rows :
                            \/ r.order < o.order
                            \/ r.order = o.order /\ r.transfer_id <= o.transfer_id
         IN  <<first.transfer_id>>
             \o TransfersOf([d EXCEPT !.itinerary_transfer = @ \ {first}], day_id)

(* The serialized_day dictionary every handler builds from a day row. *)
serialized_day(d, day) ==
    LET accommodations == AccommodationsOf(d, day.id)
        activities == ActivitiesOf(d, day.id)
        transfers == TransfersOf(d, day.id)
    IN  [id |-> day.id,
         itinerary_id |-> day.itinerary_id,
         day_number |-> day.day_number,
         main_destination_id |-> day.main_destination_id,
         description |-> day.description,
         accommodations |-> [k \in DOMAIN accommodations |->
                                AccommodationSerializer(accommodations[k])],
         activities |-> [k \in DOMAIN activities |-> ActivitySerializer(activities[k])],
         transfers |-> [k \in DOMAIN transfers |-> TransferSerializer(transfers[k])]]

----------------------------------------------------------------------------
(* get_itinerary: the SerializedItinerary built from the stored rows, the  *)
(* days in day_number order (Itinerary.days order_by).                     *)

RECURSIVE SortedDays(_)
SortedDays(rows) ==
    IF rows = {} THEN <<>>
    ELSE LET first == CHOOSE r \in rows : \A o \in rows : r.day_number <= o.day_number
         IN  <<first>> \o SortedDays(rows \ {first})

(* for day in itinerary.days: serialized_days.append(serialized_day) *)
SerializedDays(d, itinerary_id) ==
    LET days == SortedDays(DaysOf(d, itinerary_id)) IN
    [k \in DOMAIN days |-> serialized_day(d, days[k])]

get_itinerary(d, itinerary_id) ==
    IF \A i \in d.itineraries : i.id # itinerary_id
    THEN [response |-> ITINERARY_NOT_FOUND, itinerary |-> NULL]
    ELSE LET itinerary == ItineraryRow(d, itinerary_id) IN
         [response |-> Ok,
          itinerary |-> [id |-> itinerary.id,
                         uuid |-> itinerary.uuid,
                         title |-> itinerary.title,
                         duration_nights |-> itinerary.duration_nights,
                         description |-> itinerary.description,
                         preferences |-> itinerary.preferences,
                         is_recommended |-> itinerary.is_recommended,
                         total_estimated_cost |-> itinerary.total_estimated_cost,
                         days |-> SerializedDays(d, itinerary_id)]]

----------------------------------------------------------------------------
(* get_itinerary_by_uuid *)

(* The query without its filter on the uuid. *)
ItineraryByUuidUnfiltered(d, uuid) == d.itineraries

(* db.query(Itinerary).filter(Itinerary.uuid == uuid) *)
ItineraryByUuid(d, uuid) == {i \in d.itineraries : i.uuid = uuid}

get_itinerary_by_uuid(d, uuid) ==
    IF ItineraryByUuid(d, uuid) = {}
    THEN [response |-> ITINERARY_NOT_FOUND, itinerary |-> NULL]
    ELSE LET itinerary == CHOOSE i \in ItineraryByUuid(d, uuid) :
                            \A o \in ItineraryByUuid(d, uuid) : i.id <= o.id
             days == SortedDays(DaysOf(d, itinerary.id))
         IN  [response |-> Ok,
              itinerary |-> [id |-> itinerary.id,
                             uuid |-> itinerary.uuid,
                             title |-> itinerary.title,
                             duration_nights |-> itinerary.duration_nights,
                             description |-> itinerary.description,
                             preferences |-> itinerary.preferences,
                             is_recommended |-> itinerary.is_recommended,
                             total_estimated_cost |-> itinerary.total_estimated_cost,
                             days |-> [k \in DOMAIN days |-> serialized_day(d, days[k])]]]

----------------------------------------------------------------------------

(* get_itineraries *)

(* ItineraryFilter; a field left out is None. *)
ItineraryFilter(destination_id, min_nights, max_nights, is_recommended) ==
    [destination_id |-> destination_id, min_nights |-> min_nights,
     max_nights |-> max_nights, is_recommended |-> is_recommended]

(* The rows the query selects: one per itinerary, or, under the join with  *)
(* ItineraryDay, one per day at the destination; <<itinerary id, day id>>  *)
(* with day id 0 when there is no join.                                    *)
FilteredRows(d, filters) ==
    LET kept == {i \in d.itineraries :
                    filters # None =>
                        LET f == ValueOf(filters) IN
                        /\ f.is_recommended # None
                            => i.is_recommended = ValueOf(f.is_recommended)
                        /\ f.min_nights # None
                            => i.duration_nights >= ValueOf(f.min_nights)
                        /\ f.max_nights # None
                            => i.duration_nights <= ValueOf(f.max_nights)}
    IN  IF filters # None /\ ValueOf(filters).destination_id # None
        THEN {<<i.id, day.id>> : i \in kept,
                day \in {r \in d.itinerary_days :
                            r.main_destination_id = ValueOf(ValueOf(filters).destination_id)}}
             \cap {<<day.itinerary_id, day.id>> : day \in d.itinerary_days}
        ELSE {<<i.id, 0>> : i \in kept}

(* The selected rows in the order the database returns them (the query has *)
(* no ORDER BY; the rows come in the order they were stored).             *)
RECURSIVE RowsInOrder(_)
RowsInOrder(rows) ==
    IF rows = {} THEN <<>>
    ELSE LET first == CHOOSE r \in rows :
                        \A o \in rows :
                            r[1] < o[1] \/ (r[1] = o[1] /\ r[2] <= o[2])
         IN  <<first>> \o RowsInOrder(rows \ {first})

(* query.offset(skip).limit(limit) *)
Page(rows, skip, limit) ==
    SubSeq(rows, skip + 1, IF skip + limit < Len(rows) THEN skip + limit ELSE Len(rows))

(* Query.all() of a single entity: each entity once, at its first row. *)
RECURSIVE UniqueList(_)
UniqueList(rows) ==
    IF rows = <<>> THEN <<>>
    ELSE LET front == UniqueList(SubSeq(rows, 1, Len(rows) - 1))
             id == rows[Len(rows)][1]
         IN  IF \E k \in DOMAIN front : front[k] = id THEN front ELSE Append(front, id)

get_itineraries(d, skip, limit, filters) ==
    LET itineraries == UniqueList(Page(RowsInOrder(FilteredRows(d, filters)), skip, limit)) IN
    [k \in DOMAIN itineraries |->
        LET itinerary == ItineraryRow(d, itineraries[k]) IN
        [id |-> itinerary.id,
         uuid |-> itinerary.uuid,
         title |-> itinerary.title,
         duration_nights |-> itinerary.duration_nights,
         description |-> itinerary.description,
         preferences |-> itinerary.preferences,
         is_recommended |-> itinerary.is_recommended,
         total_estimated_cost |-> itinerary.total_estimated_cost]]

(* Python truth of an optional int: neither None nor 0. *)
Truthy(o) == o # None /\ ValueOf(o) # 0

(* GET /itineraries/: the query parameters make an ItineraryFilter when    *)
(* any([destination_id, min_nights, max_nights, is_recommended is not      *)
(* None]).                                                                 *)
list_itineraries(d, skip, limit, destination_id, min_nights, max_nights, is_recommended) ==
    LET filters ==
            IF \/ Truthy(destination_id) \/ Truthy(min_nights) \/ Truthy(max_nights)
               \/ is_recommended # None
            THEN Some(ItineraryFilter(destination_id, min_nights, max_nights,
                                      is_recommended))
            ELSE None
    IN  get_itineraries(d, skip, limit, filters)

----------------------------------------------------------------------------

(* add_itinerary_day *)

(* The reads without the day-number pre-check. *)
AddDayReadNoPrecheck(d, cat, itinerary_id, day_data) ==
    IF \A i \in d.itineraries : i.id # itinerary_id
    THEN ITINERARY_NOT_FOUND
    ELSE IF day_data.main_destination_id \notin cat.destinations
    THEN DESTINATION_NOT_FOUND
    ELSE NoError

(* The reads before the first write: the itinerary, the day-number        *)
(* pre-check and the destination.                                          *)
AddDayRead(d, cat, itinerary_id, day_data) ==
    IF \A i \in d.itineraries : i.id # itinerary_id
    THEN ITINERARY_NOT_FOUND
    ELSE IF \E r \in d.itinerary_days :
                r.itinerary_id = itinerary_id /\ r.day_number = day_data.day_number
    THEN DayExistsInline
    ELSE IF day_data.main_destination_id \notin cat.destinations
    THEN DESTINATION_NOT_FOUND
    ELSE NoError

SetDuration(t, itinerary_id, duration_nights) ==
    IF t.error # NoError THEN t
    ELSE [t EXCEPT !.db.itineraries =
            {IF i.id = itinerary_id
             THEN [i EXCEPT !.duration_nights = duration_nights]
             ELSE i : i \in @}]

(* The duration set to day_number instead of day_number - 1. *)
AddDayWriteOffByOne(d, cat, itinerary, day_data) ==
    LET t1 == ComposeDay(Begin(d), cat, itinerary.id, day_data)
        t2 == IF day_data.day_number > itinerary.duration_nights + 1
              THEN SetDuration(Flush(t1), itinerary.id, day_data.day_number)
              ELSE t1
    IN  Outcome(d, t2, Created)

(* The writes, against the store as it is when they run; `itinerary` is    *)
(* the row as the handler loaded it before the pre-check.                  *)
AddDayWrite(d, cat, itinerary, day_data) ==
    LET t1 == ComposeDay(Begin(d), cat, itinerary.id, day_data)
        t2 == IF day_data.day_number > itinerary.duration_nights + 1
              THEN SetDuration(Flush(t1), itinerary.id, day_data.day_number - 1)
              ELSE t1
    IN  Outcome(d, t2, Created)

add_itinerary_day(d, cat, itinerary_id, day_data) ==
    LET e == AddDayRead(d, cat, itinerary_id, day_data) IN
    IF e # NoError
    THEN [db |-> d, response |-> e]
    ELSE AddDayWrite(d, cat, ItineraryRow(d, itinerary_id), day_data)

----------------------------------------------------------------------------
(* delete_itinerary_day *)

(* The query with day_number >= in place of ==. *)
DayQueryAtOrAfter(d, itinerary_id, day_number) ==
    {r \in DaysOf(d, itinerary_id) : r.day_number >= day_number}

(* db.query(ItineraryDay).filter(itinerary_id ==, day_number ==): the rows *)
(* .first() picks from.                                                    *)
DayQuery(d, itinerary_id, day_number) ==
    {r \in DaysOf(d, itinerary_id) : r.day_number = day_number}

(* The flush at commit writes the changed day rows before it deletes: one  *)
(* UPDATE per renumbered row, in primary-key order, each checked against   *)
(* uq_itinerary_day_number while the deleted day's row is still there.     *)
RECURSIVE UpdateDayNumbers(_, _)
UpdateDayNumbers(t, ids) ==
    IF t.error # NoError \/ ids = {} THEN t
    ELSE LET id == CHOOSE x \in ids : \A y \in ids : x <= y
             row == CHOOSE r \in t.db.itinerary_days : r.id = id
             others == t.db.itinerary_days \ {row}
         IN  IF \E o \in others : o.itinerary_id = row.itinerary_id
                                  /\ o.day_number = row.day_number - 1
             THEN Raise(t, IntegrityError)
             ELSE UpdateDayNumbers(
                    [t EXCEPT !.db.itinerary_days =
                        others \cup {[row EXCEPT !.day_number = @ - 1]}],
                    ids \ {id})

(* DELETE of the day row; its association rows go with it (ON DELETE       *)
(* CASCADE).                                                               *)
DeleteDayRow(t, day) ==
    IF t.error # NoError THEN t
    ELSE [t EXCEPT
            !.db.itinerary_days = {r \in @ : r.id # day.id},
            !.db.itinerary_accommodation = {r \in @ : r.itinerary_day_id # day.id},
            !.db.itinerary_activity = {r \in @ : r.itinerary_day_id # day.id},
            !.db.itinerary_transfer = {r \in @ : r.itinerary_day_id # day.id}]

(* The assignment made on the row of the session. *)
DecrementDurationStored(t, itinerary) ==
    SetDuration(t, itinerary.id, itinerary.duration_nights - 1)

(* itinerary.duration_nights -= 1, where `itinerary` is what get_itinerary *)
(* returned: the SerializedItinerary, not a row of the session. The result *)
(* is the transaction after the assignment.                                *)
DecrementDuration(t, itinerary) == t

delete_itinerary_day(d, itinerary_id, day_number) ==
    LET got == get_itinerary(d, itinerary_id) IN
    IF got.response # Ok
    THEN [db |-> d, response |-> got.response]
    ELSE IF DayQuery(d, itinerary_id, day_number) = {}
    THEN [db |-> d, response |-> INVALID_DAY_NUMBER]
    ELSE LET day == CHOOSE r \in DayQuery(d, itinerary_id, day_number) : TRUE
             days_to_update == {r.id : r \in {x \in DaysOf(d, itinerary_id) :
                                                x.day_number > day_number}}
             t1 == DecrementDuration(Begin(d), got.itinerary)
             t2 == UpdateDayNumbers(t1, days_to_update)
         IN  Outcome(d, DeleteDayRow(t2, day), NoContent)

----------------------------------------------------------------------------
(* update_itinerary_day *)

(* The assignment reaching every day row. *)
SetDayFieldOfAllDays(t, day_id, field, value) ==
    IF t.error # NoError THEN t
    ELSE [t EXCEPT !.db.itinerary_days = {[r EXCEPT ![field] = value] : r \in @}]

(* day.<field> = value: the UPDATE of that day's row at the flush. *)
SetDayField(t, day_id, field, value) ==
    IF t.error # NoError THEN t
    ELSE [t EXCEPT !.db.itinerary_days =
            {IF r.id = day_id THEN [r EXCEPT ![field] = value] ELSE r : r \in @}]

(* day.accommodations = [] and the appends that follow: at the flush the   *)
(* links no longer in the collection are deleted and one row is inserted   *)
(* per appended element that was not linked before.                        *)
ReplaceAccommodations(t, cat, day_id, ids) ==
    LET original == {r.accommodation_id :
                        r \in {x \in t.db.itinerary_accommodation :
                                    x.itinerary_day_id = day_id}}
        current == {ids[k] : k \in DOMAIN ids}
        looked == AttachAccommodations([t EXCEPT !.pending = <<>>], cat, day_id, ids)
        added == SelectSeq(looked.pending, LAMBDA r : r.accommodation_id \notin original)
    IN  IF looked.error # NoError THEN looked
        ELSE [looked EXCEPT
                !.db.itinerary_accommodation =
                    {r \in @ : r.itinerary_day_id # day_id
                               \/ r.accommodation_id \in current},
                !.pending = t.pending \o added]

(* db.execute(f"DELETE FROM {table} WHERE itinerary_day_id = {day.id}"):   *)
(* a plain string; whether the session executes it depends on the          *)
(* installed SQLAlchemy (accepted).                                        *)
ExecuteRawDelete(t, table, day_id, accepted) ==
    IF t.error # NoError THEN t
    ELSE IF ~accepted THEN Raise(t, ArgumentError)
    ELSE [t EXCEPT !.db[table] = {r \in @ : r.itinerary_day_id # day_id}]

update_itinerary_day(d, cat, itinerary_id, day_number, day_data, accepted) ==
    IF \A i \in d.itineraries : i.id # itinerary_id
    THEN [db |-> d, response |-> ITINERARY_NOT_FOUND]
    ELSE IF DayQuery(d, itinerary_id, day_number) = {}
    THEN [db |-> d, response |-> INVALID_DAY_NUMBER]
    ELSE LET day == CHOOSE r \in DayQuery(d, itinerary_id, day_number) : TRUE
             t0 == Begin(d)
             t1 == IF day_data.main_destination_id = None THEN t0
                   ELSE IF ValueOf(day_data.main_destination_id) \notin cat.destinations
                   THEN Raise(t0, DESTINATION_NOT_FOUND)
                   ELSE SetDayField(t0, day.id, "main_destination_id",
                                    ValueOf(day_data.main_destination_id))
             t2 == IF day_data.description = None THEN t1
                   ELSE SetDayField(t1, day.id, "description",
                                    ValueOf(day_data.description))
             t3 == IF day_data.accommodations = None THEN t2
                   ELSE ReplaceAccommodations(t2, cat, day.id,
                                              ValueOf(day_data.accommodations))
             t4 == IF day_data.activities = None THEN t3
                   ELSE InsertActivities(
                            ExecuteRawDelete(t3, "itinerary_activity", day.id, accepted),
                            cat, day.id, ValueOf(day_data.activities))
             t5 == IF day_data.transfers = None THEN t4
                   ELSE InsertTransfers(
                            ExecuteRawDelete(t4, "itinerary_transfer", day.id, accepted),
                            cat, day.id, ValueOf(day_data.transfers))
         IN  Outcome(d, t5, Ok)

----------------------------------------------------------------------------
(* update_itinerary *)

Serialized(d, itinerary_id) == get_itinerary(d, itinerary_id).itinerary

(* The assignment without its `is not None` guard. *)
SetItineraryFieldAlways(t, itinerary_id, field, value) ==
    [t EXCEPT !.db.itineraries =
        {IF i.id = itinerary_id
         THEN [i EXCEPT ![field] = IF value = None THEN NULL ELSE ValueOf(value)]
         ELSE i : i \in @}]

(* if itinerary_data.<field> is not None: itinerary.<field> = ... *)
SetItineraryField(t, itinerary_id, field, value) ==
    IF value = None THEN t
    ELSE [t EXCEPT !.db.itineraries =
            {IF i.id = itinerary_id THEN [i EXCEPT ![field] = ValueOf(value)] ELSE i
                : i \in @}]

(* The handler's outcome with, on success, the itinerary it returns: the   *)
(* row as refreshed after the commit.                                      *)
update_itinerary(d, itinerary_id, itinerary_data) ==
    IF \A i \in d.itineraries : i.id # itinerary_id
    THEN [db |-> d, response |-> ITINERARY_NOT_FOUND, itinerary |-> NULL]
    ELSE LET t1 == SetItineraryField(Begin(d), itinerary_id, "title", itinerary_data.title)
             t2 == SetItineraryField(t1, itinerary_id, "description",
                                     itinerary_data.description)
             t3 == SetItineraryField(t2, itinerary_id, "is_recommended",
                                     itinerary_data.is_recommended)
             t4 == SetItineraryField(t3, itinerary_id, "preferences",
                                     itinerary_data.preferences)
             t5 == SetItineraryField(t4, itinerary_id, "total_estimated_cost",
                                     itinerary_data.total_estimated_cost)
             r == Outcome(d, t5, Ok)
         IN  [db |-> r.db, response |-> r.response,
              itinerary |-> Serialized(r.db, itinerary_id)]

----------------------------------------------------------------------------
(* delete_itinerary *)

(* Session.delete() given an object of a class that is not mapped. *)
UnmappedInstanceError ==
    [status_code |-> 500, detail |-> "Internal Server Error", raised |-> "UnmappedInstanceError"]

(* db.delete(itinerary), where `itinerary` is what get_itinerary returned: *)
(* the SerializedItinerary, an object of a pydantic class.                 *)
SessionDelete(t, itinerary) == Raise(t, UnmappedInstanceError)

delete_itinerary(d, itinerary_id) ==
    LET got == get_itinerary(d, itinerary_id) IN
    IF got.response # Ok
    THEN [db |-> d, response |-> got.response]
    ELSE Outcome(d, SessionDelete(Begin(d), got.itinerary), NoContent)

----------------------------------------------------------------------------
(* The catalog's delete handlers (src/destination, src/accommodation,      *)
(* src/activity, src/transfer): the outcome is the catalog after the call  *)
(* and the response.                                                       *)

DESTINATION_IN_USE ==
    [status_code |-> 400,
     detail |-> "Destination is referenced by one or more itineraries and cannot be deleted",
     raised |-> "HTTPException"]

ACCOMMODATION_IN_USE ==
    [status_code |-> 400,
     detail |-> "Accommodation is referenced by one or more itineraries and cannot be deleted",
     raised |-> "HTTPException"]

ACTIVITY_IN_USE ==
    [status_code |-> 400,
     detail |-> "Activity is referenced by one or more itineraries and cannot be deleted",
     raised |-> "HTTPException"]

TRANSFER_IN_USE ==
    [status_code |-> 400,
     detail |-> "Transfer is referenced by one or more itineraries and cannot be deleted",
     raised |-> "HTTPException"]

(* db.delete(row); db.commit(): the DELETE is rejected when a foreign key  *)
(* without ON DELETE still references the row.                             *)
DeleteCatalogRow(cat, table, id, referenced) ==
    IF referenced
    THEN [catalog |-> cat, response |-> IntegrityError]
    ELSE [catalog |-> [cat EXCEPT ![table] = @ \ {id}], response |-> NoContent]

(* db.query(ItineraryDay).filter(ItineraryDay.main_destination_id == id) *)
DestinationDays(d, destination_id) ==
    {day \in d.itinerary_days : day.main_destination_id = destination_id}

(* `dependents`: an accommodation, activity or transfer of the catalog     *)
(* still names the destination (destination_id, origin_id: NOT NULL).      *)
delete_destination(d, cat, destination_id, dependents) ==
    IF destination_id \notin cat.destinations
    THEN [catalog |-> cat, response |-> DESTINATION_NOT_FOUND]
    ELSE IF DestinationDays(d, destination_id) # {}
    THEN [catalog |-> cat, response |-> DESTINATION_IN_USE]
    ELSE DeleteCatalogRow(cat, "destinations", destination_id,
                          dependents \/ DestinationDays(d, destination_id) # {})

(* db.query(ItineraryDay).join(ItineraryDay.accommodations)                *)
(*   .filter(Accommodation.id == accommodation_id)                         *)
AccommodationDays(d, accommodation_id) ==
    {day \in d.itinerary_days :
        \E r \in d.itinerary_accommodation :
            r.itinerary_day_id = day.id /\ r.accommodation_id = accommodation_id}

delete_accommodation(d, cat, accommodation_id) ==
    IF accommodation_id \notin cat.accommodations
    THEN [catalog |-> cat, response |-> ACCOMMODATION_NOT_FOUND]
    ELSE IF AccommodationDays(d, accommodation_id) # {}
    THEN [catalog |-> cat, response |-> ACCOMMODATION_IN_USE]
    ELSE DeleteCatalogRow(cat, "accommodations", accommodation_id,
            \E r \in d.itinerary_accommodation : r.accommodation_id = accommodation_id)

(* The query without its filter on the activity: no day is found.          *)
ActivityDaysNone(d, activity_id) == {}

(* db.query(ItineraryDay).join(ItineraryDay.activities)                    *)
(*   .filter(Activity.id == activity_id)                                   *)
ActivityDays(d, activity_id) ==
    {day \in d.itinerary_days :
        \E r \in d.itinerary_activity :
            r.itinerary_day_id = day.id /\ r.activity_id = activity_id}

delete_activity(d, cat, activity_id) ==
    IF activity_id \notin cat.activities
    THEN [catalog |-> cat, response |-> ACTIVITY_NOT_FOUND]
    ELSE IF ActivityDays(d, activity_id) # {}
    THEN [catalog |-> cat, response |-> ACTIVITY_IN_USE]
    ELSE DeleteCatalogRow(cat, "activities", activity_id,
            \E r \in d.itinerary_activity : r.activity_id = activity_id)

(* db.query(ItineraryDay).join(ItineraryDay.transfers)                     *)
(*   .filter(Transfer.id == transfer_id)                                   *)
TransferDays(d, transfer_id) ==
    {day \in d.itinerary_days :
        \E r \in d.itinerary_transfer :
            r.itinerary_day_id = day.id /\ r.transfer_id = transfer_id}

delete_transfer(d, cat, transfer_id) ==
    IF transfer_id \notin cat.transfers
    THEN [catalog |-> cat, response |-> TRANSFER_NOT_FOUND]
    ELSE IF TransferDays(d, transfer_id) # {}
    THEN [catalog |-> cat, response |-> TRANSFER_IN_USE]
    ELSE DeleteCatalogRow(cat, "transfers", transfer_id,
            \E r \in d.itinerary_transfer : r.transfer_id = transfer_id)

----------------------------------------------------------------------------

(* The service called one request at a time *)

(* The last request answered: the handler, its response and, for a        *)
(* create, the payload's duration_nights and number of days.               *)
Answer(op, response) ==
    [op |-> op, response |-> response, duration_nights |-> 0, n_days |-> 0]

CreateAnswer(response, duration_nights, n_days) ==
    [op |-> "create_itinerary", response |-> response,
     duration_nights |-> duration_nights, n_days |-> n_days]

Idle == [pc |-> "idle", response |-> NoError]

Init ==
    /\ db = EmptyDB
    /\ catalog = Catalog
    /\ last = Answer("", NoError)
    /\ call = [p \in Procs |-> Idle]

(* POST /itineraries *)
CreateItinerary ==
    \E n \in 1..MaxNights, len \in 0..(MaxNights + 2) :
        /\ db.itinerary_id_seq < MaxItineraries
        /\ len = n + 1 => db.itinerary_day_id_seq + len <= MaxDayRows
        /\ \E days \in CreateDaysOfLen(len, n) :
            LET r == create_itinerary(db, catalog, ItineraryCreate(n, days)) IN
            /\ db' = r.db
            /\ last' = CreateAnswer(r.response, n, len)
        /\ UNCHANGED <<catalog, call>>

(* POST /itineraries/{id}/days *)
AddDay ==
    \E itinerary_id \in 1..MaxItineraries, day_data \in ItineraryDayCreate :
        /\ db.itinerary_day_id_seq < MaxDayRows
        /\ LET r == add_itinerary_day(db, catalog, itinerary_id, day_data) IN
            /\ db' = r.db
            /\ last' = Answer("add_itinerary_day", r.response)
        /\ UNCHANGED <<catalog, call>>

(* PUT /itineraries/{id}/days/{day_number} *)
UpdateDay ==
    \E itinerary_id \in 1..MaxItineraries, day_number \in 1..MaxDayNumber,
       day_data \in ItineraryDayUpdate, accepted \in BOOLEAN :
        /\ LET r == update_itinerary_day(db, catalog, itinerary_id, day_number,
                                         day_data, accepted) IN
            /\ db' = r.db
            /\ last' = Answer("update_itinerary_day", r.response)
        /\ UNCHANGED <<catalog, call>>

(* DELETE /itineraries/{id}/days/{day_number} *)
DeleteDay ==
    \E itinerary_id \in 1..MaxItineraries, day_number \in 1..MaxDayNumber :
        /\ LET r == delete_itinerary_day(db, itinerary_id, day_number) IN
            /\ db' = r.db
            /\ last' = Answer("delete_itinerary_day", r.response)
        /\ UNCHANGED <<catalog, call>>

Next ==
    \/ CreateItinerary
    \/ AddDay
    \/ UpdateDay
    \/ DeleteDay

Spec == Init /\ [][Next]_vars

----------------------------------------------------------------------------
(* One client that composes itineraries with days numbered 1.. and then    *)
(* edits them: update_itinerary_day, update_itinerary and delete_itinerary *)
(* one request at a time, at most MaxEdits updates in all.                 *)

Editor == "p1"

Edits(calls) == IF "edits" \in DOMAIN calls[Editor] THEN calls[Editor].edits ELSE 0

Edited(calls, response) ==
    [calls EXCEPT ![Editor] =
        [pc |-> "idle", response |-> response, edits |-> Edits(calls) + 1]]

(* The payloads the editor sends: a description, a list of each kind that  *)
(* replaces or clears, and lists that name a catalog row that is not there. *)
EditDayUpdates ==
    {DescriptionOnly}
    \cup {p \in ListUpdates : \/ p.accommodations = Some(<<2>>)
                              \/ p.activities \notin {None, Some(<<>>)}
                              \/ p.transfers = Some(<<>>)}
    \cup {p \in ItineraryDayUpdate : p.description = None}

(* POST /itineraries with days numbered 1..N+1 *)
CreateItineraryNumbered ==
    \E n \in 1..MaxNights :
        /\ db.itinerary_id_seq < MaxItineraries
        /\ db.itinerary_day_id_seq + n + 1 <= MaxDayRows
        /\ \E days \in [1..(n + 1) -> ConcDayCreate] :
            /\ \A k \in 1..(n + 1) : days[k].day_number = k
            /\ LET r == create_itinerary(db, catalog, ItineraryCreate(n, days)) IN
                /\ db' = r.db
                /\ last' = Answer("create_itinerary", r.response)
        /\ UNCHANGED <<catalog, call>>

(* PUT /itineraries/{id}/days/{day_number} *)
UpdateDayByEditor ==
    \E itinerary_id \in 1..MaxItineraries, day_number \in 1..MaxDayNumber,
       day_data \in EditDayUpdates, accepted \in BOOLEAN :
        /\ Edits(call) < MaxEdits
        /\ LET r == update_itinerary_day(db, catalog, itinerary_id, day_number,
                                         day_data, accepted) IN
            /\ db' = r.db
            /\ last' = Answer("update_itinerary_day", r.response)
            /\ call' = Edited(call, r.response)
        /\ UNCHANGED catalog

(* PUT /itineraries/{id} *)
UpdateItinerary ==
    \E itinerary_id \in 1..MaxItineraries, itinerary_data \in ItineraryUpdate :
        /\ Edits(call) < MaxEdits
        /\ LET r == update_itinerary(db, itinerary_id, itinerary_data) IN
            /\ db' = r.db
            /\ last' = [Answer("update_itinerary", r.response) EXCEPT
                            !.duration_nights =
                                IF r.response = Ok THEN r.itinerary.duration_nights ELSE 0]
            /\ call' = Edited(call, r.response)
        /\ UNCHANGED catalog

(* DELETE /itineraries/{id} *)
DeleteItinerary ==
    \E itinerary_id \in 1..MaxItineraries :
        /\ LET r == delete_itinerary(db, itinerary_id) IN
            /\ db' = r.db
            /\ last' = Answer("delete_itinerary", r.response)
        /\ UNCHANGED <<catalog, call>>

EditNext ==
    \/ CreateItineraryNumbered
    \/ UpdateDayByEditor
    \/ UpdateItinerary
    \/ DeleteItinerary

EditSpec == Init /\ [][EditNext]_vars

----------------------------------------------------------------------------
(* add_itinerary_day called by two clients at once. Each call is its own   *)
(* session: the reads see what is committed when they run, the writes are  *)
(* checked against what is committed when they are flushed, and become     *)
(* visible together at the commit.                                         *)

(* Lines 495-519: load the itinerary, pre-check the day number, check the  *)
(* destination.                                                            *)
AddDayBegin(p) ==
    \E itinerary_id \in 1..MaxItineraries, day_data \in ConcDayCreate :
        /\ call[p].pc = "idle"
        /\ db.itinerary_day_id_seq < MaxDayRows
        /\ LET e == AddDayRead(db, catalog, itinerary_id, day_data) IN
            call' = [call EXCEPT ![p] =
                        IF e # NoError
                        THEN [pc |-> "idle", response |-> e]
                        ELSE [pc |-> "checked",
                              response |-> NoError,
                              itinerary |-> ItineraryRow(db, itinerary_id),
                              day_data |-> day_data]]
        /\ UNCHANGED <<db, catalog, last>>

(* Lines 521-576: the inserts and the commit. *)
AddDayEnd(p) ==
    /\ call[p].pc = "checked"
    /\ LET r == AddDayWrite(db, catalog, call[p].itinerary, call[p].day_data) IN
        /\ db' = r.db
        /\ call' = [call EXCEPT ![p] = [pc |-> "idle", response |-> r.response]]
    /\ UNCHANGED <<catalog, last>>

ConcNext ==
    \/ CreateItinerary
    \/ \E p \in Procs : AddDayBegin(p)
    \/ \E p \in Procs : AddDayEnd(p)

ConcSpec == Init /\ [][ConcNext]_vars

----------------------------------------------------------------------------
(* delete_itinerary_day called by two clients at once, one call each, on   *)
(* itineraries composed beforehand, with one get by a third client while a *)
(* call is under way.                                                      *)
(* The reads of a call see what is committed when they run. Nothing is     *)
(* written before db.commit(): the flush then sends one UPDATE per         *)
(* renumbered row, with the number computed from the row as it was loaded, *)
(* then the DELETE, then COMMIT. Statements of two sessions on the same    *)
(* rows wait for each other's commit (row locks), so one flush runs at a   *)
(* time; a reader does not wait.                                           *)

(* An UPDATE of the flush matched no row: the row it was loaded from has   *)
(* been deleted by another session.                                        *)
StaleDataError ==
    [status_code |-> 500, detail |-> "Internal Server Error", raised |-> "StaleDataError"]

(* What a statement of another session reads while a flush is under way,   *)
(* were the uncommitted writes visible to it.                              *)
ReadUncommitted(d, calls) ==
    IF \E p \in Procs : calls[p].pc = "flushing"
    THEN calls[CHOOSE p \in Procs : calls[p].pc = "flushing"].t.db
    ELSE d

(* What a statement of another session reads: the committed rows. *)
ReadCommitted(d, calls) == d

(* The statements of the flush of a delete_itinerary_day: the UPDATEs in   *)
(* primary-key order, then the DELETE.                                     *)
RECURSIVE UpdateStatements(_)
UpdateStatements(rows) ==
    IF rows = {} THEN <<>>
    ELSE LET row == CHOOSE r \in rows : \A o \in rows : r.id <= o.id
         IN  <<[kind |-> "UPDATE", id |-> row.id, day_number |-> row.day_number - 1]>>
                \o UpdateStatements(rows \ {row})

FlushStatements(day, days_to_update) ==
    UpdateStatements(days_to_update) \o <<[kind |-> "DELETE", id |-> day.id]>>

ExecuteStatement(t, stmt) ==
    IF t.error # NoError THEN t
    ELSE IF stmt.kind = "DELETE"
    THEN DeleteDayRow(t, [id |-> stmt.id])
    ELSE IF \A r \in t.db.itinerary_days : r.id # stmt.id
    THEN Raise(t, StaleDataError)
    ELSE LET row == CHOOSE r \in t.db.itinerary_days : r.id = stmt.id
             others == t.db.itinerary_days \ {row}
         IN  IF \E o \in others : o.itinerary_id = row.itinerary_id
                                  /\ o.day_number = stmt.day_number
             THEN Raise(t, IntegrityError)
             ELSE [t EXCEPT !.db.itinerary_days =
                        others \cup {[row EXCEPT !.day_number = stmt.day_number]}]

RECURSIVE ExecuteStatements(_, _)
ExecuteStatements(t, stmts) ==
    IF stmts = <<>> THEN t
    ELSE ExecuteStatements(ExecuteStatement(t, Head(stmts)), Tail(stmts))

(* A call that has returned: what it was asked and what it answered. *)
Returned(c, response) ==
    [pc |-> "idle", response |-> response, op |-> "delete_itinerary_day",
     itinerary |-> c.itinerary, day_number |-> c.day_number, found |-> c.found]

(* Lines 601-627: get_itinerary, the day, the days after it. *)
DeleteDayBegin(p) ==
    \E itinerary_id \in 1..MaxItineraries, day_number \in 1..MaxDayNumber :
        /\ call[p] = Idle
        /\ LET got == get_itinerary(ReadCommitted(db, call), itinerary_id)
               rows == DaysOf(ReadCommitted(db, call), itinerary_id)
           IN  /\ got.response = Ok
               /\ call' = [call EXCEPT ![p] =
                    IF \A r \in rows : r.day_number # day_number
                    THEN Returned([itinerary |-> got.itinerary, day_number |-> day_number,
                                   found |-> FALSE], INVALID_DAY_NUMBER)
                    ELSE [pc |-> "loaded", response |-> NoError,
                          op |-> "delete_itinerary_day",
                          itinerary |-> got.itinerary,
                          day_number |-> day_number,
                          found |-> TRUE,
                          statements |-> FlushStatements(
                              CHOOSE r \in rows : r.day_number = day_number,
                              {r \in rows : r.day_number > day_number})]]
        /\ UNCHANGED <<db, catalog, last>>

(* db.commit() starts its flush. *)
DeleteDayFlush(p) ==
    /\ call[p].pc = "loaded"
    /\ \A q \in Procs : call[q].pc # "flushing"
    /\ call' = [call EXCEPT ![p] =
                    [call[p] EXCEPT !.pc = "flushing"] @@ [t |-> Begin(db)]]
    /\ UNCHANGED <<db, catalog, last>>

(* One statement of the flush; a rejected statement ends the call and      *)
(* rolls its transaction back.                                             *)
DeleteDayStatement(p) ==
    /\ call[p].pc = "flushing"
    /\ call[p].statements # <<>>
    /\ LET t == ExecuteStatement(call[p].t, Head(call[p].statements)) IN
        call' = [call EXCEPT ![p] =
                    IF t.error # NoError
                    THEN Returned(call[p], t.error)
                    ELSE [call[p] EXCEPT !.t = t, !.statements = Tail(@)]]
    /\ UNCHANGED <<db, catalog, last>>

(* COMMIT *)
DeleteDayCommit(p) ==
    /\ call[p].pc = "flushing"
    /\ call[p].statements = <<>>
    /\ db' = call[p].t.db
    /\ call' = [call EXCEPT ![p] = Returned(call[p], NoContent)]
    /\ UNCHANGED <<catalog, last>>

(* GET /itineraries/{id} by a third client while a call is under way. *)
GetItinerary ==
    \E itinerary_id \in 1..MaxItineraries :
        /\ last.op = ""
        /\ \E p \in Procs : call[p].pc \in {"loaded", "flushing"}
        /\ LET got == get_itinerary(ReadCommitted(db, call), itinerary_id) IN
            /\ got.response = Ok
            /\ last' = [op |-> "get_itinerary", response |-> got.response,
                        duration_nights |-> got.itinerary.duration_nights,
                        n_days |-> Len(got.itinerary.days),
                        itinerary |-> got.itinerary]
        /\ UNCHANGED <<db, catalog, call>>

NoCallYet == (\A p \in Procs : call[p] = Idle) /\ last.op = ""

(* POST /itineraries and POST /itineraries/{id}/days before the two calls, *)
(* with the payloads of ConcDayCreate.                                     *)
CreateItineraryBefore ==
    \E n \in 1..MaxNights :
        /\ NoCallYet
        /\ db.itinerary_id_seq < MaxItineraries
        /\ db.itinerary_day_id_seq + n + 1 <= MaxDayRows
        /\ \E days \in [1..(n + 1) -> ConcDayCreate] :
            db' = create_itinerary(db, catalog, ItineraryCreate(n, days)).db
        /\ UNCHANGED <<catalog, last, call>>

AddDayBefore ==
    \E itinerary_id \in 1..MaxItineraries, day_data \in ConcDayCreate :
        /\ NoCallYet
        /\ db.itinerary_day_id_seq < MaxDayRows
        /\ db' = add_itinerary_day(db, catalog, itinerary_id, day_data).db
        /\ UNCHANGED <<catalog, last, call>>

DelNext ==
    \/ CreateItineraryBefore
    \/ AddDayBefore
    \/ \E p \in Procs : DeleteDayBegin(p)
    \/ \E p \in Procs : DeleteDayFlush(p)
    \/ \E p \in Procs : DeleteDayStatement(p)
    \/ \E p \in Procs : DeleteDayCommit(p)
    \/ GetItinerary

DelSpec == Init /\ [][DelNext]_vars

----------------------------------------------------------------------------
(* Two itineraries side by side: composed with days numbered 1.., then     *)
(* changed by at most MaxEdits requests in all (add_day, update_day,       *)
(* delete_day, update) and read, one request at a time.                    *)

(* The payloads of a plain day and of a day with every kind of            *)
(* association.                                                            *)
PairDayCreate ==
    {p \in ConcDayCreate : \A k \in DOMAIN p.activities : p.activities[k].id \in ActivityRows}

(* The updates of a day sent here: a description, a list of activities.    *)
PairDayUpdates ==
    {DescriptionOnly} \cup {p \in ListUpdates : p.activities \notin {None, Some(<<>>)}}

(* POST /itineraries with days numbered 1..N+1 *)
CreateItineraryEach ==
    \E n \in 1..MaxNights :
        /\ db.itinerary_id_seq < MaxItineraries
        /\ Edits(call) = 0
        /\ \E days \in [1..(n + 1) -> PairDayCreate] :
            /\ \A k \in 1..(n + 1) : days[k].day_number = k
            /\ LET r == create_itinerary(db, catalog, ItineraryCreate(n, days)) IN
                /\ db' = r.db
                /\ last' = Answer("create_itinerary", r.response)
        /\ UNCHANGED <<catalog, call>>

(* POST /itineraries/{id}/days *)
AddDayTo ==
    \E itinerary_id \in 1..MaxItineraries, day_data \in PairDayCreate :
        /\ Edits(call) < MaxEdits
        /\ Len(day_data.activities) = 2
        /\ LET r == add_itinerary_day(db, catalog, itinerary_id, day_data) IN
            /\ db' = r.db
            /\ last' = Answer("add_itinerary_day", r.response)
            /\ call' = Edited(call, r.response)
        /\ UNCHANGED catalog

(* PUT /itineraries/{id}/days/{day_number} *)
UpdateDayOf ==
    \E itinerary_id \in 1..MaxItineraries, day_number \in 1..MaxDayNumber,
       day_data \in PairDayUpdates, accepted \in BOOLEAN :
        /\ Edits(call) < MaxEdits
        /\ LET r == update_itinerary_day(db, catalog, itinerary_id, day_number,
                                         day_data, accepted) IN
            /\ db' = r.db
            /\ last' = Answer("update_itinerary_day", r.response)
            /\ call' = Edited(call, r.response)
        /\ UNCHANGED catalog

(* DELETE /itineraries/{id}/days/{day_number} *)
DeleteDayOf ==
    \E itinerary_id \in 1..MaxItineraries, day_number \in 1..MaxDayNumber :
        /\ Edits(call) < MaxEdits
        /\ LET r == delete_itinerary_day(db, itinerary_id, day_number) IN
            /\ db' = r.db
            /\ last' = Answer("delete_itinerary_day", r.response)
            /\ call' = Edited(call, r.response)
        /\ UNCHANGED catalog

(* What a read answers: the itinerary asked for and the projection. *)
ReadAnswer(op, itinerary_id, got) ==
    [op |-> op, response |-> got.response, duration_nights |-> 0, n_days |-> 0,
     requested |-> itinerary_id, itinerary |-> got.itinerary]

(* GET /itineraries/{id}: the handler, then get_db's commit. *)
GetById ==
    \E itinerary_id \in 1..MaxItineraries :
        LET got == get_itinerary(db, itinerary_id) IN
        /\ db' = Outcome(db, Begin(db), got.response).db
        /\ last' = ReadAnswer("get_itinerary", itinerary_id, got)
        /\ UNCHANGED <<catalog, call>>

(* GET /itineraries/by-uuid/{uuid}: the handler, then get_db's commit. *)
GetByUuid ==
    \E itinerary_id \in 1..MaxItineraries :
        LET got == get_itinerary_by_uuid(db, <<"uuid4", itinerary_id>>) IN
        /\ db' = Outcome(db, Begin(db), got.response).db
        /\ last' = ReadAnswer("get_itinerary_by_uuid", itinerary_id, got)
        /\ UNCHANGED <<catalog, call>>

PairNext ==
    \/ CreateItineraryEach
    \/ AddDayTo
    \/ UpdateDayOf
    \/ DeleteDayOf
    \/ UpdateItinerary
    \/ GetById
    \/ GetByUuid

PairSpec == Init /\ [][PairNext]_vars

----------------------------------------------------------------------------
(* The catalog's rows deleted while an itinerary is composed and then      *)
(* changed by at most MaxEdits requests (add_day, update_day, delete_day), *)
(* one request at a time.                                                  *)

(* DELETE /destinations/{id} *)
DeleteDestination ==
    \E destination_id \in DestinationRows, dependents \in BOOLEAN :
        /\ dependents
            => catalog.accommodations \cup catalog.activities \cup catalog.transfers # {}
        /\ LET r == delete_destination(db, catalog, destination_id, dependents) IN
            /\ catalog' = r.catalog
            /\ last' = Answer("delete_destination", r.response)
        /\ UNCHANGED <<db, call>>

(* DELETE /accommodations/{id} *)
DeleteAccommodation ==
    \E accommodation_id \in AccommodationRows :
        /\ LET r == delete_accommodation(db, catalog, accommodation_id) IN
            /\ catalog' = r.catalog
            /\ last' = Answer("delete_accommodation", r.response)
        /\ UNCHANGED <<db, call>>

(* DELETE /activities/{id} *)
DeleteActivity ==
    \E activity_id \in ActivityRows :
        /\ LET r == delete_activity(db, catalog, activity_id) IN
            /\ catalog' = r.catalog
            /\ last' = Answer("delete_activity", r.response)
        /\ UNCHANGED <<db, call>>

(* DELETE /transfers/{id} *)
DeleteTransfer ==
    \E transfer_id \in TransferRows :
        /\ LET r == delete_transfer(db, catalog, transfer_id) IN
            /\ catalog' = r.catalog
            /\ last' = Answer("delete_transfer", r.response)
        /\ UNCHANGED <<db, call>>

CatalogNext ==
    \/ CreateItineraryNumbered
    \/ AddDayTo
    \/ UpdateDayOf
    \/ DeleteDayOf
    \/ DeleteDestination
    \/ DeleteAccommodation
    \/ DeleteActivity
    \/ DeleteTransfer

CatalogSpec == Init /\ [][CatalogNext]_vars

----------------------------------------------------------------------------
(* Properties *)

Tables(d) ==
    <<d.itineraries, d.itinerary_days, d.itinerary_accommodation,
      d.itinerary_activity, d.itinerary_transfer>>

NotFoundErrors ==
    {DESTINATION_NOT_FOUND, ACCOMMODATION_NOT_FOUND, ACTIVITY_NOT_FOUND, TRANSFER_NOT_FOUND}

(* C1: a create whose number of days differs from duration_nights + 1 is   *)
(* answered with the DaysMismatch error (400) and changes no table.        *)
C1_DaysMismatchRejected ==
    [][(last'.op = "create_itinerary" /\ last'.n_days # last'.duration_nights + 1)
        => (last'.response = DAYS_MISMATCH /\ Tables(db') = Tables(db))]_vars

(* C2: a create that fails because a day names a destination,             *)
(* accommodation, activity or transfer that does not exist leaves every    *)
(* table as it was: no itinerary row, no day row, no association row of    *)
(* the call remains.                                                       *)
C2_CreateAllOrNothing ==
    [][(last'.op = "create_itinerary" /\ last'.response \in NotFoundErrors)
        => Tables(db') = Tables(db)]_vars

(* A create failed on the last lookup of a day, after the day row and its  *)
(* accommodation and activity links were written, and no row is there.     *)
C2_Witness ==
    /\ last.op = "create_itinerary"
    /\ last.response = TRANSFER_NOT_FOUND
    /\ db.itineraries = {}
    /\ db.itinerary_days = {}
    /\ db.itinerary_activity = {}

(* C3: after a successful create with duration_nights = N the new          *)
(* itinerary has exactly N + 1 days and their numbers are exactly 1..N+1.  *)
C3_CreateNumbersDays ==
    (last.op = "create_itinerary" /\ last.response = Created)
        => /\ Cardinality(DaysOf(db, db.itinerary_id_seq)) = last.duration_nights + 1
           /\ DayNumbersOf(db, db.itinerary_id_seq) = 1..(last.duration_nights + 1)

(* C4: in every reachable state the day numbers of an itinerary with K     *)
(* days are exactly 1..K.                                                  *)
C4_Contiguous ==
    \A i \in db.itineraries :
        DayNumbersOf(db, i.id) = 1..Cardinality(DaysOf(db, i.id))

Renumbered(rows, day) ==
    {IF r.itinerary_id = day.itinerary_id /\ r.day_number > day.day_number
     THEN [r EXCEPT !.day_number = @ - 1]
     ELSE r : r \in rows \ {day}}

(* C5: delete_day on day N of an itinerary with days 1..K removes that day *)
(* and its association rows, gives each later day the number one lower     *)
(* with everything else of it kept, and leaves the day numbers 1..K-1.     *)
C5_DeleteDayRenumbers ==
    \A i \in db.itineraries :
        LET K == Cardinality(DaysOf(db, i.id)) IN
        DayNumbersOf(db, i.id) = 1..K =>
            \A N \in 1..K :
                LET day == CHOOSE r \in DaysOf(db, i.id) : r.day_number = N
                    r == delete_itinerary_day(db, i.id, N)
                IN  /\ r.db.itinerary_days = Renumbered(db.itinerary_days, day)
                    /\ r.db.itinerary_accommodation =
                         {x \in db.itinerary_accommodation : x.itinerary_day_id # day.id}
                    /\ r.db.itinerary_activity =
                         {x \in db.itinerary_activity : x.itinerary_day_id # day.id}
                    /\ r.db.itinerary_transfer =
                         {x \in db.itinerary_transfer : x.itinerary_day_id # day.id}
                    /\ DayNumbersOf(r.db, i.id) = 1..(K - 1)

(* C6: a successful delete_day lowers the stored duration_nights of the    *)
(* itinerary that lost the day by exactly 1, and get_itinerary returns the *)
(* lowered value.                                                          *)
C6_DeleteDayDecrementsDuration ==
    [][(last'.op = "delete_itinerary_day" /\ last'.response = NoContent)
        => \A i \in db.itineraries :
              DaysOf(db', i.id) # DaysOf(db, i.id)
                => /\ ItineraryRow(db', i.id).duration_nights = i.duration_nights - 1
                   /\ get_itinerary(db', i.id).itinerary.duration_nights
                        = i.duration_nights - 1]_vars

(* C7: a successful add_day with day number d on an itinerary whose        *)
(* duration_nights is n leaves duration_nights = d - 1 when d > n + 1 and  *)
(* = n otherwise.                                                          *)
C7_AddDayExtendsDuration ==
    [][(last'.op = "add_itinerary_day" /\ last'.response = Created)
        => /\ db'.itinerary_days \ db.itinerary_days # {}
           /\ \A r \in db'.itinerary_days \ db.itinerary_days :
                LET n == ItineraryRow(db, r.itinerary_id).duration_nights
                    d == r.day_number
                IN  ItineraryRow(db', r.itinerary_id).duration_nights
                        = IF d > n + 1 THEN d - 1 ELSE n]_vars

(* A day numbered beyond the created duration was added and the duration   *)
(* of its itinerary is that number less one.                               *)
C7_Witness ==
    /\ last.op = "add_itinerary_day"
    /\ last.response = Created
    /\ \E i \in db.itineraries :
        /\ i.duration_nights = MaxDayNumber - 1
        /\ MaxDayNumber \in DayNumbersOf(db, i.id)
        /\ Cardinality(DaysOf(db, i.id)) < MaxDayNumber

(* C8: add_day with a day number a day of the itinerary already has is     *)
(* answered 400 "Day ... already exists" and changes nothing; add_day with *)
(* a free day number and a destination that does not exist is answered     *)
(* 404 DestinationNotFound and changes nothing.                            *)
C8_AddDayRejections ==
    \A i \in db.itineraries, day_data \in ItineraryDayCreate :
        LET r == add_itinerary_day(db, catalog, i.id, day_data) IN
        /\ day_data.day_number \in DayNumbersOf(db, i.id)
            => /\ r.response.status_code = 400
               /\ r.response = DayExistsInline
               /\ r.db = db
        /\ (day_data.day_number \notin DayNumbersOf(db, i.id)
            /\ day_data.main_destination_id \notin catalog.destinations)
            => /\ r.response = DESTINATION_NOT_FOUND
               /\ r.db = db

(* An add_day was refused because its day number was taken. *)
C8_Witness ==
    /\ last.op = "add_itinerary_day"
    /\ last.response = DayExistsInline
    /\ db.itinerary_days # {}

(* C9: whatever the interleaving of concurrent add_day calls, no two day   *)
(* rows have the same (itinerary_id, day_number).                          *)
C9_NoDuplicateDayRow ==
    \A r1 \in db.itinerary_days, r2 \in db.itinerary_days :
        (r1.itinerary_id = r2.itinerary_id /\ r1.day_number = r2.day_number)
            => r1 = r2

(* Two calls passed the pre-check; one committed its day row and the       *)
(* other's insert was rejected.                                            *)
C9_Witness ==
    \E p \in Procs, q \in Procs :
        /\ p # q
        /\ call[p].pc = "idle" /\ call[p].response = Created
        /\ call[q].pc = "idle" /\ call[q].response = IntegrityError

(* C10: an add_day whose pre-check passed and whose insert the uniqueness  *)
(* constraint rejects is answered with the DayAlreadyExists error (400).   *)
C10_ConflictTranslated ==
    [][\A p \in Procs :
        (/\ call[p].pc = "checked"
         /\ call'[p].pc = "idle"
         /\ ~UniqueDayNumberHolds(db, call[p].itinerary.id, call[p].day_data.day_number))
        => call'[p].response \in {DAY_ALREADY_EXISTS, DayExistsInline}]_vars

(* C11: two delete_day calls that ran concurrently on different existing   *)
(* days of the same K-day itinerary leave it with K-2 days numbered 1..K-2 *)
(* and with duration_nights lowered by 2, as the two calls run one after   *)
(* the other would.                                                        *)
C11_ConcurrentDeletesSerialized ==
    \A p \in Procs, q \in Procs :
        (/\ p # q
         /\ call[p].pc = "idle" /\ "found" \in DOMAIN call[p] /\ call[p].found
         /\ call[q].pc = "idle" /\ "found" \in DOMAIN call[q] /\ call[q].found
         /\ call[p].itinerary = call[q].itinerary
         /\ call[p].day_number # call[q].day_number)
        => LET id == call[p].itinerary.id
               K == Len(call[p].itinerary.days)
           IN  /\ Cardinality(DaysOf(db, id)) = K - 2
               /\ DayNumbersOf(db, id) = 1..(K - 2)
               /\ ItineraryRow(db, id).duration_nights
                    = call[p].itinerary.duration_nights - 2

(* The store after the commit of a call under way, the store as it is if   *)
(* a statement of its flush is rejected.                                   *)
AfterCommit(d, c) ==
    LET t == ExecuteStatements(IF c.pc = "flushing" THEN c.t ELSE Begin(d), c.statements)
    IN  IF t.error # NoError THEN d ELSE t.db

LinksOf(d, table, day_id) == {r \in d[table] : r.itinerary_day_id = day_id}

(* C13: update_day with only a description succeeds, sets the day's        *)
(* description and changes nothing else in any table; and after any        *)
(* successful update_day each field the payload omits is as it was: the    *)
(* day's number, destination, description, and its accommodation, activity *)
(* (with start_time, end_time, order) and transfer rows; the other days    *)
(* and the itinerary rows are as they were.                                *)
C13_UpdateDayFrame ==
    \A day \in db.itinerary_days, accepted \in BOOLEAN :
        /\ LET r == update_itinerary_day(db, catalog, day.itinerary_id, day.day_number,
                                         DescriptionOnly, accepted)
           IN  /\ r.response = Ok
               /\ r.db = [db EXCEPT !.itinerary_days =
                            (@ \ {day}) \cup {[day EXCEPT !.description = "hike"]}]
        /\ \A day_data \in ItineraryDayUpdate \cup ListUpdates :
            LET r == update_itinerary_day(db, catalog, day.itinerary_id, day.day_number,
                                          day_data, accepted)
                after == CHOOSE x \in r.db.itinerary_days : x.id = day.id
            IN  r.response = Ok =>
                /\ after.day_number = day.day_number
                /\ after.itinerary_id = day.itinerary_id
                /\ day_data.main_destination_id = None
                    => after.main_destination_id = day.main_destination_id
                /\ day_data.description = None => after.description = day.description
                /\ day_data.accommodations = None
                    => LinksOf(r.db, "itinerary_accommodation", day.id)
                         = LinksOf(db, "itinerary_accommodation", day.id)
                /\ day_data.activities = None
                    => LinksOf(r.db, "itinerary_activity", day.id)
                         = LinksOf(db, "itinerary_activity", day.id)
                /\ day_data.transfers = None
                    => LinksOf(r.db, "itinerary_transfer", day.id)
                         = LinksOf(db, "itinerary_transfer", day.id)
                /\ r.db.itinerary_days \ {after} = db.itinerary_days \ {day}
                /\ r.db.itineraries = db.itineraries

(* An update_day changed the description of a day composed with another    *)
(* description, an accommodation, two timed activities and a transfer, and *)
(* the day still has them.                                                 *)
C13_Witness ==
    /\ last.op = "update_itinerary_day"
    /\ last.response = Ok
    /\ \E day \in db.itinerary_days :
        /\ day.description = "hike"
        /\ day.main_destination_id = 2
        /\ LinksOf(db, "itinerary_accommodation", day.id) # {}
        /\ \E a \in LinksOf(db, "itinerary_activity", day.id) : a.start_time = "09:00"
        /\ Cardinality(LinksOf(db, "itinerary_activity", day.id)) = 2
        /\ LinksOf(db, "itinerary_transfer", day.id) # {}

Range(seq) == {seq[k] : k \in DOMAIN seq}

(* C14: update_day that supplies a list of existing accommodations,        *)
(* activities or transfers, or an empty list, succeeds and leaves the day  *)
(* with exactly the supplied entries of that kind and with the rows of the *)
(* other two kinds it had.                                                 *)
C14_UpdateDayReplacesLists ==
    \A day \in db.itinerary_days, day_data \in ListUpdates, accepted \in BOOLEAN :
        LET r == update_itinerary_day(db, catalog, day.itinerary_id, day.day_number,
                                      day_data, accepted)
            accommodations ==
                IF day_data.accommodations = None
                THEN LinksOf(db, "itinerary_accommodation", day.id)
                ELSE {[itinerary_day_id |-> day.id, accommodation_id |-> a]
                        : a \in Range(ValueOf(day_data.accommodations))}
            activities ==
                IF day_data.activities = None
                THEN LinksOf(db, "itinerary_activity", day.id)
                ELSE {[itinerary_day_id |-> day.id, activity_id |-> e.id,
                       start_time |-> SqlTime(e.start_time),
                       end_time |-> SqlTime(e.end_time), order |-> e.order]
                        : e \in Range(ValueOf(day_data.activities))}
            transfers ==
                IF day_data.transfers = None
                THEN LinksOf(db, "itinerary_transfer", day.id)
                ELSE {[itinerary_day_id |-> day.id, transfer_id |-> e.id, order |-> e.order]
                        : e \in Range(ValueOf(day_data.transfers))}
        IN  /\ r.response = Ok
            /\ LinksOf(r.db, "itinerary_accommodation", day.id) = accommodations
            /\ LinksOf(r.db, "itinerary_activity", day.id) = activities
            /\ LinksOf(r.db, "itinerary_transfer", day.id) = transfers

(* The payloads that name a catalog row that does not exist after at       *)
(* least one entry, or one whole list, that does.                          *)
MissingLater(day_data) ==
    \/ \E k \in 2..Len(day_data.accommodations) :
            day_data.accommodations[k] \notin AccommodationRows
    \/ \E k \in 2..Len(day_data.activities) :
            day_data.activities[k].id \notin ActivityRows
    \/ \E k \in 2..Len(day_data.transfers) :
            day_data.transfers[k].id \notin TransferRows

(* C15: an update_day or add_day that fails leaves every table as it was;  *)
(* and one whose new list names a missing catalog row at a later position  *)
(* does fail: update_day leaves the day with the destination, description  *)
(* and association rows it had, add_day leaves no row of the new day.      *)
C15_FailedDayWriteCommitsNothing ==
    /\ \A day \in db.itinerary_days, day_data \in ItineraryDayUpdate, accepted \in BOOLEAN :
        LET r == update_itinerary_day(db, catalog, day.itinerary_id, day.day_number,
                                      day_data, accepted)
            lists == [accommodations |-> IF day_data.accommodations = None THEN <<>>
                                         ELSE ValueOf(day_data.accommodations),
                      activities |-> IF day_data.activities = None THEN <<>>
                                     ELSE ValueOf(day_data.activities),
                      transfers |-> IF day_data.transfers = None THEN <<>>
                                    ELSE ValueOf(day_data.transfers)]
        IN  /\ r.response # Ok => r.db = db
            /\ MissingLater(lists) => r.response # Ok
            /\ (MissingLater(lists) /\ accepted) => r.response \in NotFoundErrors
    /\ \A i \in db.itineraries, day_data \in ItineraryDayCreate :
        LET r == add_itinerary_day(db, catalog, i.id, day_data) IN
        /\ r.response # Created => r.db = db
        /\ (MissingLater(day_data) /\ day_data.day_number \notin DayNumbersOf(db, i.id))
            => r.response \in NotFoundErrors

(* An update_day that had cleared the day's accommodations failed on the   *)
(* second entry of its transfers list, and every day has the accommodation *)
(* and the transfer it was composed with.                                  *)
C15_Witness ==
    /\ last.op = "update_itinerary_day"
    /\ last.response = TRANSFER_NOT_FOUND
    /\ db.itinerary_days # {}
    /\ \A day \in db.itinerary_days :
        /\ LinksOf(db, "itinerary_accommodation", day.id) # {}
        /\ \E x \in LinksOf(db, "itinerary_transfer", day.id) : x.order = 1

(* C16: update_day and delete_day for a day number that no day of the      *)
(* itinerary has are answered with InvalidDayNumber (400) and leave every  *)
(* table as it was.                                                        *)
C16_InvalidDayNumberRejected ==
    \A i \in db.itineraries, day_number \in 1..MaxDayNumber :
        day_number \notin DayNumbersOf(db, i.id) =>
            /\ \A day_data \in ItineraryDayUpdate \cup ListUpdates, accepted \in BOOLEAN :
                LET r == update_itinerary_day(db, catalog, i.id, day_number,
                                              day_data, accepted)
                IN  /\ r.response = INVALID_DAY_NUMBER
                    /\ r.response.status_code = 400
                    /\ r.db = db
            /\ LET r == delete_itinerary_day(db, i.id, day_number)
               IN  /\ r.response = INVALID_DAY_NUMBER
                   /\ r.response.status_code = 400
                   /\ r.db = db

(* A delete_day was refused for a day number the itinerary does not have,  *)
(* and the itinerary has a day with a higher number.                       *)
C16_Witness ==
    /\ last.op = "delete_itinerary_day"
    /\ last.response = INVALID_DAY_NUMBER
    /\ \E i \in db.itineraries, n \in 1..MaxDayNumber :
        /\ n \notin DayNumbersOf(db, i.id)
        /\ \E m \in DayNumbersOf(db, i.id) : m > n

ScalarFields ==
    {"title", "description", "is_recommended", "preferences", "total_estimated_cost"}

C18_UpdateReturnsSuppliedDuration ==
    \A i \in db.itineraries, itinerary_data \in ItineraryUpdate :
        (itinerary_data.title # None /\ itinerary_data.duration_nights # None) =>
            LET r == update_itinerary(db, i.id, itinerary_data) IN
            /\ r.response = Ok
            /\ r.itinerary.title = ValueOf(itinerary_data.title)
            /\ r.itinerary.duration_nights = ValueOf(itinerary_data.duration_nights)

(* C19: a create with a duration_nights of at least 1 and no days is       *)
(* answered 201 and stores a new itinerary with the title, duration_nights *)
(* and description supplied and with no day; a day can then be added to it *)
(* with add_day.                                                           *)
C19_CreateWithoutDays ==
    [][(last'.op = "create_itinerary" /\ last'.n_days = 0 /\ last'.duration_nights >= 1)
        => /\ last'.response = Created
           /\ \E i \in db'.itineraries \ db.itineraries :
                /\ i.title = "Trip"
                /\ i.description = "A trip"
                /\ i.duration_nights = last'.duration_nights
                /\ DaysOf(db', i.id) = {}
                /\ add_itinerary_day(db', catalog, i.id, PlainDay(1)).response = Created]_vars

(* C20: delete_itinerary on an existing itinerary succeeds; afterwards a   *)
(* get of it is answered NotFound, none of its day rows and none of their  *)
(* association rows remains, and the other itineraries, their days and     *)
(* their association rows are as they were.                                *)
C20_DeleteItineraryCascades ==
    \A i \in db.itineraries :
        LET r == delete_itinerary(db, i.id)
            days == {day.id : day \in DaysOf(db, i.id)}
        IN  /\ r.response = NoContent
            /\ get_itinerary(r.db, i.id).response = ITINERARY_NOT_FOUND
            /\ r.db.itineraries = db.itineraries \ {i}
            /\ r.db.itinerary_days = db.itinerary_days \ DaysOf(db, i.id)
            /\ \A table \in {"itinerary_accommodation", "itinerary_activity",
                             "itinerary_transfer"} :
                r.db[table] = {x \in db[table] : x.itinerary_day_id \notin days}

----------------------------------------------------------------------------
(* C21: after a successful add_day that carries accommodation ids,         *)
(* activity entries and transfer entries, a get of the itinerary returns   *)
(* that day with exactly the supplied accommodations, activities and       *)
(* transfers (same ids, same counts) and the supplied main_destination_id. *)
C21_AddDayThenGet ==
    \A itinerary_id \in 1..MaxItineraries, day_data \in ItineraryDayCreate :
        LET r == add_itinerary_day(db, catalog, itinerary_id, day_data) IN
        r.response = Created =>
            LET got == get_itinerary(r.db, itinerary_id) IN
            /\ got.response = Ok
            /\ \E k \in DOMAIN got.itinerary.days :
                LET day == got.itinerary.days[k] IN
                /\ day.day_number = day_data.day_number
                /\ day.main_destination_id = day_data.main_destination_id
                /\ Len(day.accommodations) = Len(day_data.accommodations)
                /\ {a.id : a \in Range(day.accommodations)}
                    = Range(day_data.accommodations)
                /\ Len(day.activities) = Len(day_data.activities)
                /\ {a.id : a \in Range(day.activities)}
                    = {e.id : e \in Range(day_data.activities)}
                /\ Len(day.transfers) = Len(day_data.transfers)
                /\ {a.id : a \in Range(day.transfers)}
                    = {e.id : e \in Range(day_data.transfers)}

(* An add_day has just stored a day with an accommodation, two activities  *)
(* and a transfer, next to an earlier day that has activities too, and a   *)
(* get projects the new day with them.                                     *)
C21_Witness ==
    /\ last.op = "add_itinerary_day"
    /\ last.response = Created
    /\ \E day \in db.itinerary_days :
        /\ day.id = db.itinerary_day_id_seq
        /\ LET projected == serialized_day(db, day) IN
            /\ Len(projected.accommodations) = 1
            /\ Len(projected.activities) = 2
            /\ Len(projected.transfers) = 1
            /\ projected \in Range(get_itinerary(db, day.itinerary_id).itinerary.days)
        /\ \E other \in db.itinerary_days :
            other.id # day.id /\ LinksOf(db, "itinerary_activity", other.id) # {}

----------------------------------------------------------------------------
(* C22: in every projected day each activity record carries the order,     *)
(* start_time and end_time stored in that day's association row for that   *)
(* activity, and each transfer record carries the order stored in its      *)
(* association row.                                                        *)
C22_ProjectionCarriesAssociationFields ==
    \A i \in db.itineraries :
        LET days == get_itinerary(db, i.id).itinerary.days IN
        \A k \in DOMAIN days :
            /\ \A a \in Range(days[k].activities) :
                \E r \in LinksOf(db, "itinerary_activity", days[k].id) :
                    /\ r.activity_id = a.id
                    /\ a.order = Some(r.order)
                    /\ a.start_time
                        = IF r.start_time = NULL THEN None ELSE Some(r.start_time)
                    /\ a.end_time
                        = IF r.end_time = NULL THEN None ELSE Some(r.end_time)
            /\ \A a \in Range(days[k].transfers) :
                \E r \in LinksOf(db, "itinerary_transfer", days[k].id) :
                    r.transfer_id = a.id /\ a.order = Some(r.order)

----------------------------------------------------------------------------
----------------------------------------------------------------------------
(* The query strings of GET /itineraries/ tried: each parameter left out   *)
(* or given, the nights bounds from 0 to one more than any duration.       *)
ListQueries ==
    [destination_id : {None} \cup {Some(x) : x \in DestinationRows},
     min_nights : {None} \cup {Some(n) : n \in 0..MaxDayNumber},
     max_nights : {None} \cup {Some(n) : n \in 0..MaxDayNumber},
     is_recommended : {None, Some(TRUE), Some(FALSE)}]

(* The itineraries that satisfy every filter a query supplies. *)
Satisfying(d, q) ==
    {i \in d.itineraries :
        /\ q.is_recommended # None => i.is_recommended = ValueOf(q.is_recommended)
        /\ q.min_nights # None => ValueOf(q.min_nights) <= i.duration_nights
        /\ q.max_nights # None => i.duration_nights <= ValueOf(q.max_nights)
        /\ q.destination_id # None
            => \E day \in DaysOf(d, i.id) :
                    day.main_destination_id = ValueOf(q.destination_id)}

(* C24: list with filters returns, on a page that holds them all, exactly  *)
(* the itineraries that satisfy every supplied filter: is_recommended      *)
(* equal to the flag, min_nights <= duration_nights <= max_nights with     *)
(* both bounds inclusive and, for destination_id X, at least one day of    *)
(* the itinerary at any day_number with main destination X.                *)
C24_ListReturnsMatching ==
    \A q \in ListQueries :
        LET listed == list_itineraries(db, 0, 100, q.destination_id, q.min_nights,
                                       q.max_nights, q.is_recommended)
        IN  /\ {listed[k].id : k \in DOMAIN listed} = {i.id : i \in Satisfying(db, q)}
            /\ Len(listed) = Cardinality(Satisfying(db, q))

----------------------------------------------------------------------------
(* C25: duration_nights of every stored itinerary is an integer >= 1 in    *)
(* every reachable state, after any sequence of create, update, add_day    *)
(* and delete_day calls, including a delete_day applied to an itinerary    *)
(* whose duration_nights is 1 and an update that supplies duration_nights  *)
(* 0.                                                                      *)
C25_DurationAtLeastOne ==
    /\ \A i \in db.itineraries : i.duration_nights \in Nat /\ i.duration_nights >= 1
    /\ \A itinerary_id \in 1..MaxItineraries :
        LET r == update_itinerary(db, itinerary_id,
                    [title |-> None, duration_nights |-> Some(0),
                     description |-> None, is_recommended |-> None,
                     preferences |-> None, total_estimated_cost |-> None])
        IN  \A i \in r.db.itineraries : i.duration_nights >= 1

(* A delete_day has just removed a day of an itinerary whose               *)
(* duration_nights is 1, after an update of that itinerary.                *)
C25_Witness ==
    /\ last.op = "delete_itinerary_day"
    /\ last.response = NoContent
    /\ \E i \in db.itineraries :
        /\ i.duration_nights = 1
        /\ Cardinality(DaysOf(db, i.id)) = 1
        /\ i.title = "Tour"
        /\ \A o \in db.itineraries : o.id # i.id => Cardinality(DaysOf(db, o.id)) = 2

----------------------------------------------------------------------------
(* Lists that name the same catalog row twice. *)
TwiceActivity == <<ActivityEntry(1, NULL, NULL, 1), ActivityEntry(1, "10:00", NULL, 2)>>

(* The rows of an association table that link the day to the entity. *)
PairRows(d, table, field, day_id, id) ==
    {r \in d[table] : r.itinerary_day_id = day_id /\ r[field] = id}

(* C26: a catalog entity is attached to a given day at most once: no       *)
(* reachable state has two association rows with the same (day, activity), *)
(* (day, transfer) or (day, accommodation) pair, and an add_day or         *)
(* update_day whose list names the same activity id twice either fails as  *)
(* a whole with nothing committed or commits exactly one association row   *)
(* for it.                                                                 *)
C26_AttachedAtMostOnce ==
    /\ \A day \in db.itinerary_days :
        /\ \A id \in AccommodationRows :
            Cardinality(PairRows(db, "itinerary_accommodation", "accommodation_id",
                                 day.id, id)) <= 1
        /\ \A id \in ActivityRows :
            Cardinality(PairRows(db, "itinerary_activity", "activity_id", day.id, id)) <= 1
        /\ \A id \in TransferRows :
            Cardinality(PairRows(db, "itinerary_transfer", "transfer_id", day.id, id)) <= 1
    /\ \A i \in db.itineraries, day_number \in 1..MaxDayNumber :
        /\ LET r == add_itinerary_day(db, catalog, i.id,
                        [PlainDay(day_number) EXCEPT !.activities = TwiceActivity])
           IN  \/ r.response # Created /\ r.db = db
               \/ /\ r.response = Created
                  /\ \E day \in DaysOf(r.db, i.id) :
                        /\ day.day_number = day_number
                        /\ Cardinality(PairRows(r.db, "itinerary_activity", "activity_id",
                                                day.id, 1)) = 1
        /\ \A accepted \in BOOLEAN :
           LET r == update_itinerary_day(db, catalog, i.id, day_number,
                        [DescriptionOnly EXCEPT !.activities = Some(TwiceActivity)],
                        accepted)
           IN  \/ r.response # Ok /\ r.db = db
               \/ /\ r.response = Ok
                  /\ \E day \in DaysOf(r.db, i.id) :
                        /\ day.day_number = day_number
                        /\ Cardinality(PairRows(r.db, "itinerary_activity", "activity_id",
                                                day.id, 1)) = 1

(* An add_day has stored a day with activities; an add_day that names an   *)
(* activity twice is refused by the primary key from here, and so is an    *)
(* update_day of the stored day.                                           *)
C26_Witness ==
    /\ last.op = "add_itinerary_day"
    /\ last.response = Created
    /\ \E day \in db.itinerary_days :
        /\ day.id = db.itinerary_day_id_seq
        /\ LinksOf(db, "itinerary_activity", day.id) # {}
        /\ \E day_number \in 1..MaxDayNumber :
            add_itinerary_day(db, catalog, day.itinerary_id,
                [PlainDay(day_number) EXCEPT !.activities = TwiceActivity]).response
                = IntegrityError
        /\ update_itinerary_day(db, catalog, day.itinerary_id, day.day_number,
                [DescriptionOnly EXCEPT !.activities = Some(TwiceActivity)],
                TRUE).response = IntegrityError

----------------------------------------------------------------------------
(* C27: referential integrity holds in every reachable state: deleting a   *)
(* destination, accommodation, activity or transfer that is referenced by  *)
(* any itinerary day is refused with the in-use error and the entity       *)
(* stays, so after any sequence of catalog deletes and itinerary           *)
(* operations every day's main destination and every associated            *)
(* accommodation, activity and transfer still exists in the catalog.       *)
C27_ReferentialIntegrity ==
    /\ \A day \in db.itinerary_days : day.main_destination_id \in catalog.destinations
    /\ \A r \in db.itinerary_accommodation : r.accommodation_id \in catalog.accommodations
    /\ \A r \in db.itinerary_activity : r.activity_id \in catalog.activities
    /\ \A r \in db.itinerary_transfer : r.transfer_id \in catalog.transfers
    /\ \A day \in db.itinerary_days, dependents \in BOOLEAN :
        delete_destination(db, catalog, day.main_destination_id, dependents)
            = [catalog |-> catalog, response |-> DESTINATION_IN_USE]
    /\ \A r \in db.itinerary_accommodation :
        delete_accommodation(db, catalog, r.accommodation_id)
            = [catalog |-> catalog, response |-> ACCOMMODATION_IN_USE]
    /\ \A r \in db.itinerary_activity :
        delete_activity(db, catalog, r.activity_id)
            = [catalog |-> catalog, response |-> ACTIVITY_IN_USE]
    /\ \A r \in db.itinerary_transfer :
        delete_transfer(db, catalog, r.transfer_id)
            = [catalog |-> catalog, response |-> TRANSFER_IN_USE]

(* The delete of an activity that a day references has just been refused,  *)
(* after a destination and an accommodation that no day referenced were    *)
(* deleted; days reference a destination, an accommodation, activities and *)
(* a transfer.                                                             *)
C27_Witness ==
    /\ last.op = "delete_activity"
    /\ last.response = ACTIVITY_IN_USE
    /\ catalog.destinations # DestinationRows
    /\ catalog.accommodations # AccommodationRows
    /\ db.itinerary_days # {}
    /\ db.itinerary_accommodation # {}
    /\ db.itinerary_activity # {}
    /\ db.itinerary_transfer # {}

----------------------------------------------------------------------------
(* C28: adding a day and then deleting it is a round trip: for an          *)
(* itinerary with days 1..K and duration_nights K-1, a successful add_day  *)
(* with day_number K+1 followed by a successful delete_day of day K+1      *)
(* leaves the itinerary with the same day list (numbers, destinations,     *)
(* associations) and the same duration_nights as before the add.           *)
C28_AddThenDeleteRoundTrip ==
    \A i \in db.itineraries, day_data \in ItineraryDayCreate :
        LET K == Cardinality(DaysOf(db, i.id))
            added == add_itinerary_day(db, catalog, i.id, day_data)
            deleted == delete_itinerary_day(added.db, i.id, K + 1)
        IN  (/\ DayNumbersOf(db, i.id) = 1..K
             /\ i.duration_nights = K - 1
             /\ day_data.day_number = K + 1
             /\ added.response = Created
             /\ deleted.response = NoContent)
            => /\ DaysOf(deleted.db, i.id) = DaysOf(db, i.id)
               /\ deleted.db.itinerary_accommodation = db.itinerary_accommodation
               /\ deleted.db.itinerary_activity = db.itinerary_activity
               /\ deleted.db.itinerary_transfer = db.itinerary_transfer
               /\ ItineraryRow(deleted.db, i.id).duration_nights = i.duration_nights

----------------------------------------------------------------------------
(* C29: in every reachable state each itinerary's duration_nights + 1 is   *)
(* at least the largest day_number among its days: no sequence of create,  *)
(* add_day, update, update_day and delete_day calls leaves a day numbered  *)
(* beyond the itinerary's duration.                                        *)
C29_NoDayBeyondDuration ==
    \A i \in db.itineraries :
        \A day_number \in DayNumbersOf(db, i.id) : day_number <= i.duration_nights + 1

----------------------------------------------------------------------------
(* What an itinerary owns: its row, its day rows and their association     *)
(* rows.                                                                   *)
Owned(d, itinerary_id) ==
    LET days == {day.id : day \in DaysOf(d, itinerary_id)} IN
    [itinerary |-> {i \in d.itineraries : i.id = itinerary_id},
     days |-> DaysOf(d, itinerary_id),
     accommodations |-> {r \in d.itinerary_accommodation : r.itinerary_day_id \in days},
     activities |-> {r \in d.itinerary_activity : r.itinerary_day_id \in days},
     transfers |-> {r \in d.itinerary_transfer : r.itinerary_day_id \in days}]

(* C30: day operations are scoped to their itinerary: add_day, update_day  *)
(* and delete_day on itinerary A leave every day row (including            *)
(* day_number), every association row and the duration_nights of any      *)
(* other itinerary B unchanged, even when B has days with the same or      *)
(* higher day numbers.                                                     *)
C30_DayOperationsScoped ==
    \A A \in 1..MaxItineraries, B \in db.itineraries :
        B.id # A =>
            /\ \A day_data \in ItineraryDayCreate :
                Owned(add_itinerary_day(db, catalog, A, day_data).db, B.id)
                    = Owned(db, B.id)
            /\ \A day_number \in 1..MaxDayNumber,
                  day_data \in ItineraryDayUpdate \cup ListUpdates \cup {DescriptionOnly},
                  accepted \in BOOLEAN :
                Owned(update_itinerary_day(db, catalog, A, day_number, day_data,
                                           accepted).db, B.id)
                    = Owned(db, B.id)
            /\ \A day_number \in 1..MaxDayNumber :
                Owned(delete_itinerary_day(db, A, day_number).db, B.id) = Owned(db, B.id)

(* A delete_day has just removed a day of one itinerary while the other    *)
(* has days of the same and of a higher number, with associations; an      *)
(* add_day and an update_day on the first succeed from here.               *)
C30_Witness ==
    /\ last.op = "delete_itinerary_day"
    /\ last.response = NoContent
    /\ \E A \in db.itineraries, B \in db.itineraries :
        /\ A.id # B.id
        /\ DayNumbersOf(db, A.id) = {1}
        /\ DayNumbersOf(db, B.id) = {1, 2}
        /\ Owned(db, B.id).activities # {}
        /\ add_itinerary_day(db, catalog, A.id, PlainDay(2)).response = Created
        /\ update_itinerary_day(db, catalog, A.id, 1, DescriptionOnly, TRUE).response = Ok

====
